---- MODULE Spec2Model ----
(***************************************************************************)
(* Model of app.py, the retail sales forecasting dashboard: one run of the *)
(* script from the upload widget to the strategy guide.  Each section of   *)
(* the script is one action; st.stop() ends the run in "stopped", an       *)
(* exception nobody catches ends it in "crashed".                          *)
(*                                                                         *)
(* Sales are integers (exact arithmetic); quotients are kept as fractions  *)
(* [num, den], and the IEEE results of a division by zero as the kinds     *)
(* "inf" and "nan".  Prophet is a black box: the model keeps the dates of  *)
(* its output frame and draws the in-sample yhat values.                   *)
(***************************************************************************)
EXTENDS Integers, Sequences, FiniteSets, TLC

VARIABLES pc, ran, shown, forecast_horizon, uploaded_file, df, monthly_sales,
          latest_month, avg_sales, growth_rate, forecast, predictions, mape,
          accuracy, forecast_table, csv

vars == <<pc, ran, shown, forecast_horizon, uploaded_file, df, monthly_sales,
          latest_month, avg_sales, growth_rate, forecast, predictions, mape,
          accuracy, forecast_table, csv>>

----------------------------------------------------------------------------
(* Bounds of the input space *)

\* rows of an exhaustively enumerated CSV
MaxRows == 2
\* largest Sales cell
MaxSale == 1
\* first year of the data
BaseYear == 2023
\* months spanned by the one-row-per-month CSVs
LongMonths == 14
\* largest in-sample residual yhat - y drawn for the fitted model
MaxResidual == 1

(* Program constants *)
SliderMin == 3
SliderMax == 12
YearLag == 12

required_cols == {"Order Date", "Sales"}

\* a check that passes as soon as one required column is there
HasAnyRequiredCol(columns) == required_cols \cap columns # {}

\* line 67: required_cols.issubset(df.columns)
HasRequiredCols(columns) == required_cols \subseteq columns

----------------------------------------------------------------------------
(* Cells *)

\* a missing numeric cell, as read_csv yields it
NaN == [isnan |-> TRUE, val |-> 0]
Num(v) == [isnan |-> FALSE, val |-> v]

\* pandas' null timestamp
NaT == [year |-> 0, month |-> 0, day |-> 0]
Timestamp(y, m, d) == [year |-> y, month |-> m, day |-> d]

IsLeap(y) == (y % 4 = 0 /\ y % 100 # 0) \/ y % 400 = 0

DaysInMonth(y, m) ==
    IF m = 2 THEN (IF IsLeap(y) THEN 29 ELSE 28)
    ELSE IF m \in {4, 6, 9, 11} THEN 30 ELSE 31

\* pd.to_datetime(..., errors="coerce") on one cell holding the text
\* month/day/year as <<mm, dd, yyyy>>; an empty cell is <<>>
to_datetime(cell) ==
    IF /\ Len(cell) = 3
       /\ cell[1] \in 1..12
       /\ cell[2] >= 1
       /\ cell[2] <= DaysInMonth(cell[3], cell[1])
    THEN Timestamp(cell[3], cell[1], cell[2])
    ELSE NaT

TsLess(a, b) ==
    \/ a.year < b.year
    \/ a.year = b.year /\ a.month < b.month
    \/ a.year = b.year /\ a.month = b.month /\ a.day < b.day

\* dt.to_period("M"): the year+month identity of a timestamp
to_period(ts) == <<ts.year, ts.month>>

\* dt.to_timestamp(): the first day of the period
to_timestamp(p) == Timestamp(p[1], p[2], 1)

PeriodLess(p, q) == p[1] < q[1] \/ (p[1] = q[1] /\ p[2] < q[2])

\* the "MS" offset: the start of the month k months after a month start
AddMonths(ts, k) ==
    LET idx == ts.year * 12 + (ts.month - 1) + k
    IN  Timestamp(idx \div 12, (idx % 12) + 1, 1)

----------------------------------------------------------------------------
(* Fractions *)

RECURSIVE GCD(_, _)
GCD(a, b) == IF b = 0 THEN a ELSE GCD(b, a % b)

Abs(x) == IF x < 0 THEN -x ELSE x

\* num/den in lowest terms, den > 0
Frac(n, d) ==
    LET g == GCD(Abs(n), Abs(d))
        s == IF d < 0 THEN -1 ELSE 1
    IN  [num |-> (s * n) \div g, den |-> (s * d) \div g]

FracAdd(a, b) == Frac(a.num * b.den + b.num * a.den, a.den * b.den)

----------------------------------------------------------------------------
(* Data preparation, lines 74-76 *)

\* line 74: the date column parsed, unparseable cells coerced to NaT
CoerceDates(rows) ==
    [i \in 1..Len(rows) |->
        [rows[i] EXCEPT !["Order Date"] = to_datetime(rows[i]["Order Date"])]]

\* line 75: dropna(subset=["Order Date", "Sales"])
IsNullRow(r) == r["Order Date"] = NaT \/ r["Sales"].isnan

\* dropna(subset=["Order Date"]): the sales column overlooked
dropna_DateOnly(rows) == SelectSeq(rows, LAMBDA r : r["Order Date"] # NaT)

dropna(rows) == SelectSeq(rows, LAMBDA r : ~IsNullRow(r))

\* line 76: sort_values("Order Date"), as an insertion sort
RECURSIVE InsertRow(_, _)
InsertRow(sorted, r) ==
    IF sorted = <<>> THEN <<r>>
    ELSE IF TsLess(r["Order Date"], Head(sorted)["Order Date"])
         THEN <<r>> \o sorted
         ELSE <<Head(sorted)>> \o InsertRow(Tail(sorted), r)

RECURSIVE sort_values(_)
sort_values(rows) ==
    IF rows = <<>> THEN <<>>
    ELSE InsertRow(sort_values(SubSeq(rows, 1, Len(rows) - 1)), rows[Len(rows)])

Normalize(rows) == sort_values(dropna(CoerceDates(rows)))

----------------------------------------------------------------------------
(* Monthly aggregation, lines 79-84 *)

\* the group keys of groupby(...dt.to_period("M"))
GroupKeys(rows) == {to_period(rows[i]["Order Date"]) : i \in 1..Len(rows)}

\* keys in descending order
RECURSIVE SortedKeys_Desc(_)
SortedKeys_Desc(keys) ==
    IF keys = {} THEN <<>>
    ELSE LET hi == CHOOSE p \in keys : \A q \in keys : ~PeriodLess(p, q)
         IN  <<hi>> \o SortedKeys_Desc(keys \ {hi})

\* groupby sorts its keys
RECURSIVE SortedKeys(_)
SortedKeys(keys) ==
    IF keys = {} THEN <<>>
    ELSE LET lo == CHOOSE p \in keys : \A q \in keys : ~PeriodLess(q, p)
         IN  <<lo>> \o SortedKeys(keys \ {lo})

\* ["Sales"].count() of one group
RECURSIVE GroupSum_Count(_, _)
GroupSum_Count(rows, key) ==
    IF rows = <<>> THEN 0
    ELSE (IF to_period(Head(rows)["Order Date"]) = key THEN 1 ELSE 0)
         + GroupSum_Count(Tail(rows), key)

\* ["Sales"].last() of one group
RECURSIVE GroupSum_Last(_, _)
GroupSum_Last(rows, key) ==
    IF rows = <<>> THEN 0
    ELSE IF to_period(rows[Len(rows)]["Order Date"]) = key
         THEN rows[Len(rows)]["Sales"].val
         ELSE GroupSum_Last(SubSeq(rows, 1, Len(rows) - 1), key)

\* ["Sales"].sum() of one group: a running sum in row order
RECURSIVE GroupSum(_, _)
GroupSum(rows, key) ==
    IF rows = <<>> THEN 0
    ELSE (IF to_period(Head(rows)["Order Date"]) = key
          THEN Head(rows)["Sales"].val ELSE 0) + GroupSum(Tail(rows), key)

Aggregate(rows) ==
    LET keys == SortedKeys(GroupKeys(rows))
    IN  [i \in 1..Len(keys) |->
            ("Order Date" :> to_timestamp(keys[i])) @@
            ("Sales" :> GroupSum(rows, keys[i]))]

----------------------------------------------------------------------------
(* Executive summary, lines 91-101 *)

RECURSIVE SumSales(_)
SumSales(ms) == IF ms = <<>> THEN 0 ELSE Head(ms)["Sales"] + SumSales(Tail(ms))

\* a float that is NaN, infinite or the fraction val
Float(kind, val) == [kind |-> kind, val |-> val]
Zero == [num |-> 0, den |-> 1]
Unset == Float("unset", Zero)

\* numpy's a / b on two numbers
Divide(a, b) ==
    IF b # 0 THEN Float("finite", Frac(a, b))
    ELSE IF a = 0 THEN Float("nan", Zero) ELSE Float("inf", Zero)

\* lines 93-96
GrowthRate(ms) ==
    LET n == Len(ms)
        q == Divide(ms[n]["Sales"], ms[n - YearLag]["Sales"])
    IN  IF n > YearLag
        THEN IF q.kind = "finite"
             THEN Float("finite",
                        Frac(100 * (q.val.num - q.val.den), q.val.den))
             ELSE q
        ELSE Float("nan", Zero)

\* line 101: the text of the YoY metric card
GrowthText(g) == IF g.kind = "nan" THEN "N/A" ELSE "percent"

----------------------------------------------------------------------------
(* Prophet, lines 116-120 *)

\* pd.date_range(start, periods, freq="MS"): month starts from start on
date_range(start, periods) ==
    LET first == IF start.day = 1 THEN start
                 ELSE AddMonths(Timestamp(start.year, start.month, 1), 1)
    IN  [k \in 1..periods |-> AddMonths(first, k - 1)]

\* make_future_dataframe(periods, freq="MS") over the fitted history dates
make_future_dataframe(history, periods) ==
    LET last_date == history[Len(history)]
        dates == SelectSeq(date_range(last_date, periods + 1),
                           LAMBDA d : TsLess(last_date, d))
    IN  history \o SubSeq(dates, 1, IF Len(dates) < periods
                                    THEN Len(dates) ELSE periods)

----------------------------------------------------------------------------
(* Accuracy, lines 128-131 *)

\* |(actual - prediction) / actual| for one month
AbsPctError(a, p) ==
    LET q == Divide(a - p, a)
    IN  IF q.kind = "finite"
        THEN Float("finite", Frac(Abs(q.val.num), q.val.den))
        ELSE q

\* Series.mean(): NaN terms are skipped, an infinite term makes the mean
\* infinite, no term left makes it NaN
RECURSIVE SumFinite(_)
SumFinite(terms) ==
    IF terms = <<>> THEN Zero
    ELSE FracAdd(Head(terms).val, SumFinite(Tail(terms)))

SeriesMean(terms) ==
    LET kept == SelectSeq(terms, LAMBDA t : t.kind # "nan")
        total == SumFinite(kept)
    IN  IF kept = <<>> THEN Float("nan", Zero)
        ELSE IF \E i \in 1..Len(kept) : kept[i].kind = "inf"
             THEN Float("inf", Zero)
             ELSE Float("finite", Frac(total.num, total.den * Len(kept)))

\* line 130
Mape(actuals, preds) ==
    LET m == SeriesMean([i \in 1..Len(actuals) |->
                            AbsPctError(actuals[i], preds[i])])
    IN  IF m.kind = "finite"
        THEN Float("finite", Frac(100 * m.val.num, m.val.den))
        ELSE m

\* line 131: 100 - mape
Accuracy(m) ==
    IF m.kind = "finite"
    THEN Float("finite", Frac(100 * m.val.den - m.val.num, m.val.den))
    ELSE IF m.kind = "inf" THEN Float("-inf", Zero) ELSE m

----------------------------------------------------------------------------
(* Forecast table and export, lines 159-175 *)

\* DataFrame.head(n)
head(frame, n) == IF n >= Len(frame) THEN frame ELSE SubSeq(frame, 1, n)

\* DataFrame.tail(n)
tail(frame, n) ==
    IF n >= Len(frame) THEN frame
    ELSE SubSeq(frame, Len(frame) - n + 1, Len(frame))

\* lines 159-160: the last rows of the forecast under the display header
ForecastTable(frame, h) ==
    LET rows == tail(frame, h)
    IN  [i \in 1..Len(rows) |-> [Date |-> rows[i]]]

\* line 169: to_csv(index=False): a header line, then one line per row
to_csv(table) ==
    <<"Date,Expected Sales,Lower Bound,Upper Bound">> \o
    [i \in 1..Len(table) |-> "row"]

----------------------------------------------------------------------------
(* Uploaded files *)

SalesCells == {NaN} \cup {Num(v) : v \in 0..MaxSale}

\* date cells of the enumerated CSVs: 11/31 is no calendar date
ShortDateCells ==
    {<<11, 31, BaseYear>>, <<11, 15, BaseYear>>,
     <<12, 1, BaseYear>>, <<12, 20, BaseYear>>}

ColumnSets ==
    {{"Order Date", "Sales"}, {"Order Date", "Sales_Value"}, {"Sales"}}

RowsOf(columns) ==
    IF columns = {"Sales"} THEN {("Sales" :> s) : s \in SalesCells}
    ELSE LET other == CHOOSE c \in columns : c # "Order Date"
         IN  {("Order Date" :> d) @@ (other :> s) :
                 d \in ShortDateCells, s \in SalesCells}

SeqsUpTo(S, n) == UNION {[1..k -> S] : k \in 0..n}

FilesWith(columns) ==
    {[kind |-> "csv", columns |-> columns, rows |-> rs] :
        rs \in SeqsUpTo(RowsOf(columns), MaxRows)}

ShortFiles == UNION {FilesWith(cs) : cs \in ColumnSets}

\* one row per month over LongMonths months from January of BaseYear, the
\* month numbered skip left out (0: none), sales alternating between two values
LongRows(skip, s) ==
    LET kept == SelectSeq([i \in 1..LongMonths |-> i], LAMBDA i : i # skip)
    IN  [j \in 1..Len(kept) |->
            LET t == AddMonths(Timestamp(BaseYear, 1, 1), kept[j] - 1)
            IN  ("Order Date" :> <<t.month, 10, t.year>>) @@
                ("Sales" :> Num(s[kept[j] % 2]))]

LongFiles ==
    {[kind |-> "csv", columns |-> required_cols, rows |-> LongRows(skip, s)] :
        skip \in 0..LongMonths, s \in [0..1 -> 0..MaxSale]}

NoFile == [kind |-> "none", columns |-> {}, rows |-> <<>>]
Unreadable == [kind |-> "unreadable", columns |-> {}, rows |-> <<>>]

Files == {NoFile, Unreadable} \cup ShortFiles \cup LongFiles

Horizons == SliderMin..SliderMax

Residuals == (0 - MaxResidual)..MaxResidual

----------------------------------------------------------------------------
(* The run *)

Init ==
    /\ pc = "upload"
    /\ ran = {}
    /\ shown = {}
    /\ forecast_horizon \in Horizons
    /\ uploaded_file \in Files
    /\ df = <<>>
    /\ monthly_sales = <<>>
    /\ latest_month = <<>>
    /\ avg_sales = Unset
    /\ growth_rate = Unset
    /\ forecast = <<>>
    /\ predictions = <<>>
    /\ mape = Unset
    /\ accuracy = Unset
    /\ forecast_table = <<>>
    /\ csv = <<>>

\* lines 48-55: no file yet
UploadMissing ==
    /\ pc = "upload"
    /\ uploaded_file.kind = "none"
    /\ pc' = "stopped"
    /\ shown' = shown \cup {"info: please upload"}
    /\ ran' = ran \cup {"upload"}
    /\ UNCHANGED <<forecast_horizon, uploaded_file, df, monthly_sales,
                   latest_month, avg_sales, growth_rate, forecast,
                   predictions, mape, accuracy, forecast_table, csv>>

\* lines 48-55: a file is there
UploadPresent ==
    /\ pc = "upload"
    /\ uploaded_file.kind # "none"
    /\ pc' = "read"
    /\ ran' = ran \cup {"upload"}
    /\ UNCHANGED <<shown, forecast_horizon, uploaded_file, df, monthly_sales,
                   latest_month, avg_sales, growth_rate, forecast,
                   predictions, mape, accuracy, forecast_table, csv>>

\* lines 60-64: read_csv raises
ReadFails ==
    /\ pc = "read"
    /\ uploaded_file.kind = "unreadable"
    /\ pc' = "stopped"
    /\ shown' = shown \cup {"error: unable to read file"}
    /\ ran' = ran \cup {"read"}
    /\ UNCHANGED <<forecast_horizon, uploaded_file, df, monthly_sales,
                   latest_month, avg_sales, growth_rate, forecast,
                   predictions, mape, accuracy, forecast_table, csv>>

\* lines 60-61: read_csv returns the table
ReadCsv ==
    /\ pc = "read"
    /\ uploaded_file.kind = "csv"
    /\ df' = uploaded_file.rows
    /\ pc' = "validate"
    /\ ran' = ran \cup {"read"}
    /\ UNCHANGED <<shown, forecast_horizon, uploaded_file, monthly_sales,
                   latest_month, avg_sales, growth_rate, forecast,
                   predictions, mape, accuracy, forecast_table, csv>>

\* lines 66-69: a required column is missing
ValidateFails ==
    /\ pc = "validate"
    /\ ~HasRequiredCols(uploaded_file.columns)
    /\ pc' = "stopped"
    /\ shown' = shown \cup {"error: CSV must contain columns"}
    /\ ran' = ran \cup {"validate"}
    /\ UNCHANGED <<forecast_horizon, uploaded_file, df, monthly_sales,
                   latest_month, avg_sales, growth_rate, forecast,
                   predictions, mape, accuracy, forecast_table, csv>>

\* lines 66-67: both required columns are there
ValidateOk ==
    /\ pc = "validate"
    /\ HasRequiredCols(uploaded_file.columns)
    /\ pc' = "prepare"
    /\ ran' = ran \cup {"validate"}
    /\ UNCHANGED <<shown, forecast_horizon, uploaded_file, df, monthly_sales,
                   latest_month, avg_sales, growth_rate, forecast,
                   predictions, mape, accuracy, forecast_table, csv>>

\* lines 74-76
Prepare ==
    /\ pc = "prepare"
    /\ df' = Normalize(df)
    /\ pc' = "aggregate"
    /\ ran' = ran \cup {"prepare"}
    /\ UNCHANGED <<shown, forecast_horizon, uploaded_file, monthly_sales,
                   latest_month, avg_sales, growth_rate, forecast,
                   predictions, mape, accuracy, forecast_table, csv>>

\* lines 79-84
AggregateMonthly ==
    /\ pc = "aggregate"
    /\ monthly_sales' = Aggregate(df)
    /\ pc' = "summary"
    /\ ran' = ran \cup {"aggregate"}
    /\ UNCHANGED <<shown, forecast_horizon, uploaded_file, df,
                   latest_month, avg_sales, growth_rate, forecast,
                   predictions, mape, accuracy, forecast_table, csv>>

\* line 91: iloc[-1] of an empty frame raises IndexError
SummaryRaises ==
    /\ pc = "summary"
    /\ monthly_sales = <<>>
    /\ pc' = "crashed"
    /\ shown' = shown \cup {"header: executive summary"}
    /\ UNCHANGED <<ran, forecast_horizon, uploaded_file, df, monthly_sales,
                   latest_month, avg_sales, growth_rate, forecast,
                   predictions, mape, accuracy, forecast_table, csv>>

\* lines 89-101
Summary ==
    /\ pc = "summary"
    /\ monthly_sales # <<>>
    /\ latest_month' = <<monthly_sales[Len(monthly_sales)]>>
    /\ avg_sales' = Float("finite",
                          Frac(SumSales(monthly_sales), Len(monthly_sales)))
    /\ growth_rate' = GrowthRate(monthly_sales)
    /\ shown' = shown \cup {"header: executive summary", "metrics: summary"}
    /\ pc' = "fit"
    /\ ran' = ran \cup {"summary"}
    /\ UNCHANGED <<forecast_horizon, uploaded_file, df, monthly_sales,
                   forecast, predictions, mape, accuracy, forecast_table, csv>>

\* line 116: Prophet.fit raises ValueError on fewer than 2 rows
FitRaises ==
    /\ pc = "fit"
    /\ Len(monthly_sales) < 2
    /\ pc' = "crashed"
    /\ UNCHANGED <<ran, shown, forecast_horizon, uploaded_file, df,
                   monthly_sales, latest_month, avg_sales, growth_rate,
                   forecast, predictions, mape, accuracy, forecast_table, csv>>

\* lines 106-120: fit, then predict over history plus horizon
Fit ==
    /\ pc = "fit"
    /\ Len(monthly_sales) >= 2
    /\ forecast' = make_future_dataframe(
                       [i \in 1..Len(monthly_sales) |->
                           monthly_sales[i]["Order Date"]],
                       forecast_horizon)
    /\ pc' = "accuracy"
    /\ ran' = ran \cup {"fit"}
    /\ UNCHANGED <<shown, forecast_horizon, uploaded_file, df, monthly_sales,
                   latest_month, avg_sales, growth_rate, predictions, mape,
                   accuracy, forecast_table, csv>>

\* lines 125-135: the in-sample yhat column is the fitted model's output
ModelAccuracy ==
    /\ pc = "accuracy"
    /\ \E e \in Residuals :
          predictions' = [i \in 1..Len(monthly_sales) |->
                             monthly_sales[i]["Sales"] + e]
    /\ mape' = Mape([i \in 1..Len(monthly_sales) |-> monthly_sales[i]["Sales"]],
                    predictions')
    /\ accuracy' = Accuracy(mape')
    /\ shown' = shown \cup {"metrics: accuracy"}
    /\ pc' = "present"
    /\ ran' = ran \cup {"accuracy"}
    /\ UNCHANGED <<forecast_horizon, uploaded_file, df, monthly_sales,
                   latest_month, avg_sales, growth_rate, forecast,
                   forecast_table, csv>>

\* lines 140-188: tabs, forecast table, download button, strategy guide
Present ==
    /\ pc = "present"
    /\ forecast_table' = ForecastTable(forecast, forecast_horizon)
    /\ csv' = to_csv(forecast_table')
    /\ shown' = shown \cup {"plots", "table: forecast", "button: download",
                            "info: strategy guide"}
    /\ pc' = "done"
    /\ ran' = ran \cup {"present"}
    /\ UNCHANGED <<forecast_horizon, uploaded_file, df, monthly_sales,
                   latest_month, avg_sales, growth_rate, forecast,
                   predictions, mape, accuracy>>

Next ==
    \/ UploadMissing
    \/ UploadPresent
    \/ ReadFails
    \/ ReadCsv
    \/ ValidateFails
    \/ ValidateOk
    \/ Prepare
    \/ AggregateMonthly
    \/ SummaryRaises
    \/ Summary
    \/ FitRaises
    \/ Fit
    \/ ModelAccuracy
    \/ Present

Spec == Init /\ [][Next]_vars

----------------------------------------------------------------------------
(* Properties *)

Rows == uploaded_file.rows
NumPoints == Len(monthly_sales)
MonthIndex(ts) == ts.year * 12 + ts.month - 1

\* the text <<mm, dd, yyyy>> names a day of the calendar
IsCalendarText(cell) ==
    /\ Len(cell) = 3
    /\ cell[1] >= 1 /\ cell[1] <= 12
    /\ cell[2] >= 1
    /\ cell[2] <= (CASE cell[1] = 2 ->
                          IF cell[3] % 4 = 0 /\ (cell[3] % 100 # 0 \/ cell[3] % 400 = 0)
                          THEN 29 ELSE 28
                     [] cell[1] \in {4, 6, 9, 11} -> 30
                     [] OTHER -> 31)

UsableRow(r) == IsCalendarText(r["Order Date"]) /\ ~r["Sales"].isnan

RECURSIVE SumOver(_, _)
SumOver(S, rows) ==
    IF S = {} THEN 0
    ELSE LET i == CHOOSE k \in S : TRUE
         IN  rows[i]["Sales"].val + SumOver(S \ {i}, rows)

InMonth(rows, y, m) ==
    {i \in 1..Len(rows) :
        rows[i]["Order Date"].year = y /\ rows[i]["Order Date"].month = m}

\* C1: once the data preparation has run, every row of df has a valid
\* calendar date and a sales value, and df holds exactly as many rows as the
\* upload has rows with a parseable date and a sales value: no row with an
\* unparseable date or a missing sales value reaches the aggregation.
C1_CleanRows ==
    "prepare" \in ran =>
        /\ \A i \in 1..Len(df) :
              /\ df[i]["Order Date"] # NaT
              /\ df[i]["Order Date"].month \in 1..12
              /\ df[i]["Order Date"].day >= 1
              /\ ~df[i]["Sales"].isnan
              /\ \E k \in 1..Len(Rows) :
                    /\ UsableRow(Rows[k])
                    /\ Rows[k]["Sales"] = df[i]["Sales"]
                    /\ Rows[k]["Order Date"] =
                          <<df[i]["Order Date"].month, df[i]["Order Date"].day,
                            df[i]["Order Date"].year>>
        /\ Len(df) = Cardinality({k \in 1..Len(Rows) : UsableRow(Rows[k])})

C1_Witness ==
    /\ "prepare" \in ran
    /\ Len(df) = 1
    /\ Len(Rows) = 2
    /\ \E k \in 1..2 : ~IsCalendarText(Rows[k]["Order Date"])

\* C2: for every calendar month of the cleaned records the monthly point of
\* that month totals the sales of exactly the cleaned records dated in it;
\* the monthly totals add up to the total of all cleaned records, so no
\* record is counted twice or left out.
C2_MonthlyTotals ==
    "aggregate" \in ran =>
        /\ \A i \in 1..Len(df) :
              LET y == df[i]["Order Date"].year
                  m == df[i]["Order Date"].month
              IN  \E j \in 1..NumPoints :
                     /\ monthly_sales[j]["Order Date"].year = y
                     /\ monthly_sales[j]["Order Date"].month = m
                     /\ monthly_sales[j]["Sales"] = SumOver(InMonth(df, y, m), df)
        /\ SumSales(monthly_sales) = SumOver(1..Len(df), df)

C2_Witness ==
    /\ "aggregate" \in ran
    /\ NumPoints = 1
    /\ Len(df) = 2
    /\ df[1]["Order Date"] # df[2]["Order Date"]
    /\ df[1]["Sales"].val > 0
    /\ df[2]["Sales"].val > 0

\* C3: the monthly series has one point per distinct calendar month of the
\* cleaned records and no other point, every point is dated on day 1, and
\* the points are in strictly ascending order.
C3_OnePointPerMonth ==
    "aggregate" \in ran =>
        /\ {MonthIndex(monthly_sales[j]["Order Date"]) : j \in 1..NumPoints}
              = {MonthIndex(df[i]["Order Date"]) : i \in 1..Len(df)}
        /\ \A j \in 1..NumPoints : monthly_sales[j]["Order Date"].day = 1
        /\ \A j \in 1..NumPoints - 1 :
              MonthIndex(monthly_sales[j]["Order Date"])
                 < MonthIndex(monthly_sales[j + 1]["Order Date"])

C3_Witness ==
    /\ "aggregate" \in ran
    /\ NumPoints = 2
    /\ Len(Rows) = 2
    /\ Rows[1]["Order Date"][1] > Rows[2]["Order Date"][1]
    /\ df[1]["Order Date"].day # 1

PastValidation ==
    {"prepare", "aggregate", "summary", "fit", "accuracy", "present"}

\* C4: a readable CSV lacking Order Date or Sales ends the run at the column
\* check with an error message: the run stops, and no cleaning, aggregation,
\* summary, fit, accuracy or export takes place.
C4_SchemaErrorHalts ==
    (/\ uploaded_file.kind = "csv"
     /\ ("Order Date" \notin uploaded_file.columns
            \/ "Sales" \notin uploaded_file.columns)) =>
        /\ pc \in {"upload", "read", "validate", "stopped"}
        /\ ran \cap PastValidation = {}
        /\ monthly_sales = <<>>
        /\ forecast = <<>>
        /\ mape = Unset
        /\ csv = <<>>
        /\ "validate" \in ran =>
              pc = "stopped" /\ "error: CSV must contain columns" \in shown

C4_Witness ==
    /\ pc = "stopped"
    /\ uploaded_file.columns = {"Order Date", "Sales_Value"}
    /\ Len(df) > 0
    /\ "error: CSV must contain columns" \in shown

\* C5: when cleaning leaves no row, so that the monthly series is empty, the
\* run stops with a message before the summary and the fit; it does not
\* crash.
C5_EmptyDataHalts ==
    ("aggregate" \in ran /\ monthly_sales = <<>> /\ pc # "summary") =>
        /\ pc = "stopped"
        /\ "summary" \notin ran
        /\ "fit" \notin ran

\* C6: when the model cannot be fitted (fewer than 2 monthly points) the run
\* stops with a message and without forecast, accuracy or export; it does
\* not end in an unhandled exception.
C6_FitFailureHalts ==
    ("summary" \in ran /\ NumPoints < 2 /\ pc # "fit") =>
        /\ pc = "stopped"
        /\ forecast = <<>>
        /\ mape = Unset
        /\ csv = <<>>

NonZeroMonths == SelectSeq([j \in 1..NumPoints |-> j],
                           LAMBDA j : monthly_sales[j]["Sales"] # 0)

\* C7: with a month of zero actual sales in the history, MAPE is the mean
\* of |actual - predicted| / actual over the months with non-zero actuals
\* only, and MAPE and accuracy are finite.
C7_ZeroActualsExcluded ==
    (/\ "accuracy" \in ran
     /\ \E j \in 1..NumPoints : monthly_sales[j]["Sales"] = 0
     /\ NonZeroMonths # <<>>) =>
        /\ mape = Mape([k \in 1..Len(NonZeroMonths) |->
                           monthly_sales[NonZeroMonths[k]]["Sales"]],
                       [k \in 1..Len(NonZeroMonths) |->
                           predictions[NonZeroMonths[k]]])
        /\ mape.kind = "finite"
        /\ accuracy.kind = "finite"

\* C8: a completed run over n >= 2 monthly points and horizon h has a
\* forecast of n + h rows; the table shown and exported is its last h rows:
\* row k is dated on day 1 of the k-th month after the last historical
\* month, so every row is a future month and no historical row is in it.
C8_ForecastWindow ==
    "present" \in ran =>
        /\ forecast_horizon \in SliderMin..SliderMax
        /\ NumPoints >= 2
        /\ Len(forecast) = NumPoints + forecast_horizon
        /\ Len(forecast_table) = forecast_horizon
        /\ Len(csv) = forecast_horizon + 1
        /\ \A k \in 1..Len(forecast_table) :
              /\ forecast_table[k].Date = forecast[NumPoints + k]
              /\ forecast_table[k].Date.day = 1
              /\ forecast_table[k].Date.month \in 1..12
              /\ MonthIndex(forecast_table[k].Date) =
                    MonthIndex(monthly_sales[NumPoints]["Order Date"]) + k
              /\ \A j \in 1..NumPoints :
                    forecast_table[k].Date # monthly_sales[j]["Order Date"]

C8_Witness ==
    /\ "present" \in ran
    /\ forecast_horizon = SliderMax
    /\ NumPoints > 12
    /\ forecast_table[1].Date.year < forecast_table[Len(forecast_table)].Date.year

Swap(s, i, j) ==
    [k \in 1..Len(s) |-> IF k = i THEN s[j] ELSE IF k = j THEN s[i] ELSE s[k]]

Reverse(s) == [k \in 1..Len(s) |-> s[Len(s) + 1 - k]]

C10_YearOverYear ==
    "summary" \in ran =>
        IF NumPoints <= 12
        THEN GrowthText(growth_rate) = "N/A"
        ELSE \E j \in 1..NumPoints :
                /\ MonthIndex(monthly_sales[j]["Order Date"]) =
                      MonthIndex(monthly_sales[NumPoints]["Order Date"]) - 12
                /\ monthly_sales[j]["Sales"] # 0
                /\ growth_rate =
                      Float("finite",
                            Frac(100 * (monthly_sales[NumPoints]["Sales"]
                                           - monthly_sales[j]["Sales"]),
                                 monthly_sales[j]["Sales"]))

====
